---- MODULE Spec2Model ----
(***************************************************************************)
(* A model of src/app.py: the Argo NetCDF extraction service.              *)
(*                                                                         *)
(*   julian_to_datetime   day offset since 1950-01-01 -> ISO-8601 string   *)
(*   parse_argo_file      dataset -> list of per-level records, or error   *)
(*   parse_argo_endpoint  the Flask handler: temp file, parse, cleanup     *)
(*                                                                         *)
(* Three specifications share the module:                                  *)
(*   Spec          parse_argo_file applied to a bounded family of datasets *)
(*   SpecTime      julian_to_datetime applied to a bounded set of scalars  *)
(*   SpecEndpoint  concurrent requests to parse_argo_endpoint              *)
(***************************************************************************)
EXTENDS Integers, Sequences, FiniteSets, TLC

VARIABLES
    ds,         \* Spec: the dataset xr.open_dataset returns
    result,     \* Spec: what parse_argo_file returned or raised
    ppc,        \* Spec: "open" before the call, "done" after
    tin,        \* SpecTime: the scalar handed to julian_to_datetime
    tout,       \* SpecTime: the outcome of the call
    tpc,        \* SpecTime: "call" before, "done" after
    fs,         \* SpecEndpoint: the temp directory, a set of files
    pc,         \* SpecEndpoint: each request's position in the handler
    upload,     \* SpecEndpoint: each request's multipart upload
    temp_path,  \* SpecEndpoint: each request's local temp_path ("" is None)
    created,    \* SpecEndpoint: the name NamedTemporaryFile gave each request
    parsed_data,\* SpecEndpoint: parse_argo_file's outcome for each request
    response    \* SpecEndpoint: the (body kind, status) each request returned

vars == <<ds, result, ppc, tin, tout, tpc, fs, pc, upload, temp_path,
          created, parsed_data, response>>

parseVars == <<ds, result, ppc>>
timeVars == <<tin, tout, tpc>>
endpointVars == <<fs, pc, upload, temp_path, created, parsed_data, response>>

-----------------------------------------------------------------------------
(* Bounds of the model.                                                    *)

MaxProf == 2
MaxLev == 2
MaxDelta == 2
MaxReq == 2
MaxNames == 3

-----------------------------------------------------------------------------
(* Values.                                                                 *)
(* A float of a measurement or coordinate array is NaN or a finite number. *)
(* A Python value that is either None or a str is Null or Str(s).          *)

NaN == [nan |-> TRUE, v |-> 0]
F(x) == [nan |-> FALSE, v |-> x]

Null == [isnull |-> TRUE, s |-> ""]
Str(s) == [isnull |-> FALSE, s |-> s]

(* IEEE comparison: every comparison with NaN is false.                    *)
Gt(a, c) == ~a.nan /\ a.v > c

(* str.strip(): leading and trailing blanks removed.                       *)
RECURSIVE LStrip(_)
LStrip(s) ==
    IF Len(s) > 0 /\ SubSeq(s, 1, 1) = " " THEN LStrip(SubSeq(s, 2, Len(s))) ELSE s

RECURSIVE RStrip(_)
RStrip(s) ==
    IF Len(s) > 0 /\ SubSeq(s, Len(s), Len(s)) = " "
    THEN RStrip(SubSeq(s, 1, Len(s) - 1)) ELSE s

Strip(s) == RStrip(LStrip(s))

(* "".join(strings)                                                        *)
RECURSIVE Join(_)
Join(strs) == IF strs = <<>> THEN "" ELSE Head(strs) \o Join(Tail(strs))

-----------------------------------------------------------------------------
(* julian_to_datetime (src/app.py 15-24).                                  *)
(*                                                                         *)
(* A scalar argument is None, a str or a float.  A finite float is a whole *)
(* number of days d (its floor) plus e eighths of a day; eighths are exact *)
(* in binary floating point, so timedelta(days=...) is exact on them: it   *)
(* normalises to (days = d, seconds = e * 10800, microseconds = 0).        *)

NoneArg == [t |-> "none", cls |-> "nan", d |-> 0, e |-> 0, str |-> ""]
StrArg(s) == [t |-> "str", cls |-> "nan", d |-> 0, e |-> 0, str |-> s]
FloatArg(cls, d, e) == [t |-> "float", cls |-> cls, d |-> d, e |-> e, str |-> ""]
Days(d, e) == FloatArg("fin", d, e)

(* pd.isna on a scalar: None and a float NaN are missing, a str is not.    *)
IsNa(x) == x.t = "none" \/ (x.t = "float" /\ x.cls = "nan")

(* float(x): a float is itself; a str parses or raises ValueError.         *)
ToFloat(x) ==
    IF x.t = "float" THEN [exc |-> "", val |-> x]
    ELSE IF x.t = "none" THEN [exc |-> "TypeError", val |-> x]
    ELSE IF x.str = "0.5" THEN [exc |-> "", val |-> Days(0, 4)]
    ELSE IF x.str = "-1" THEN [exc |-> "", val |-> Days(-1, 0)]
    ELSE IF x.str = "nan" THEN [exc |-> "", val |-> FloatArg("nan", 0, 0)]
    ELSE IF x.str = "inf" THEN [exc |-> "", val |-> FloatArg("inf", 0, 0)]
    ELSE [exc |-> "ValueError", val |-> x]

(* timedelta(days=f): NaN raises ValueError, an infinity and a magnitude   *)
(* above 999999999 days raise OverflowError.                               *)
TimedeltaExc(f) ==
    IF f.cls = "nan" THEN "ValueError"
    ELSE IF f.cls \in {"inf", "-inf"} THEN "OverflowError"
    ELSE IF f.d > 999999999 \/ f.d < -999999999 THEN "OverflowError"
    ELSE ""

(* datetime's proleptic Gregorian ordinal of ref_date, datetime(1950,1,1). *)
RefOrdinal == 365 * 1949 + (1949 \div 4) - (1949 \div 100) + (1949 \div 400) + 1
(* date.max.toordinal(), the ordinal of 9999-12-31.                        *)
MaxOrdinal == 365 * 9999 + (9999 \div 4) - (9999 \div 100) + (9999 \div 400)

DaysInMonth(m, leap) ==
    IF m = 2 THEN (IF leap THEN 29 ELSE 28)
    ELSE IF m \in {4, 6, 9, 11} THEN 30 ELSE 31

RECURSIVE DaysBeforeMonth(_, _)
DaysBeforeMonth(m, leap) ==
    IF m = 1 THEN 0 ELSE DaysBeforeMonth(m - 1, leap) + DaysInMonth(m - 1, leap)

(* datetime.fromordinal's year/month/day of ordinal n (1 is 0001-01-01):   *)
(* the 400-, 100-, 4- and 1-year cycles of the Gregorian calendar.         *)
Ord2Ymd(ord) ==
    LET n0 == ord - 1
        n400 == n0 \div 146097
        r400 == n0 % 146097
        n100 == r400 \div 36524
        r100 == r400 % 36524
        n4 == r100 \div 1461
        r4 == r100 % 1461
        n1 == r4 \div 365
        r1 == r4 % 365
        year == n400 * 400 + 1 + n100 * 100 + n4 * 4 + n1
        leap == n1 = 3 /\ (n4 # 24 \/ n100 = 3)
        month == CHOOSE m \in 1..12 :
                    /\ DaysBeforeMonth(m, leap) <= r1
                    /\ r1 < DaysBeforeMonth(m, leap) + DaysInMonth(m, leap)
    IN  IF n1 = 4 \/ n100 = 4
        THEN [y |-> year - 1, m |-> 12, d |-> 31]
        ELSE [y |-> year, m |-> month, d |-> r1 - DaysBeforeMonth(month, leap) + 1]

(* "%0*d": a number zero-padded to a width.                                *)
RECURSIVE Pad(_, _)
Pad(s, width) == IF Len(s) < width THEN Pad("0" \o s, width) ELSE s

(* datetime.isoformat() of a datetime with microsecond = 0.                *)
IsoFormat(ymd, secs) ==
    Pad(ToString(ymd.y), 4) \o "-" \o Pad(ToString(ymd.m), 2) \o "-"
        \o Pad(ToString(ymd.d), 2) \o "T"
        \o Pad(ToString(secs \div 3600), 2) \o ":"
        \o Pad(ToString((secs % 3600) \div 60), 2) \o ":"
        \o Pad(ToString(secs % 60), 2)

(* ref_date + timedelta: OverflowError unless 0 < ordinal <= date.max.     *)
AddToRefDate(f) ==
    LET ord == RefOrdinal + f.d
    IN  IF ord < 1 \/ ord > MaxOrdinal
        THEN [exc |-> "OverflowError", iso |-> ""]
        ELSE [exc |-> "", iso |-> IsoFormat(Ord2Ymd(ord), f.e * 10800)]

(* The body of the try block (lines 20-22): the string, or the exception.  *)
TryConvert(x) ==
    LET fl == ToFloat(x)
    IN  IF fl.exc # "" THEN [exc |-> fl.exc, iso |-> ""]
        ELSE IF TimedeltaExc(fl.val) # "" THEN [exc |-> TimedeltaExc(fl.val), iso |-> ""]
        ELSE AddToRefDate(fl.val)

(* A handler written as "except ValueError": the other exceptions escape.  *)
CatchesValueErrorOnly(exc) == exc = "ValueError"

(* except Exception: every exception of the try block is caught.           *)
Catches(exc) == TRUE

(* The outcome of a call: what it returned, or the exception it raised.    *)
julian_to_datetime(juld_days) ==
    IF IsNa(juld_days) THEN [raised |-> "", ret |-> Null]
    ELSE LET r == TryConvert(juld_days)
         IN  IF r.exc = "" THEN [raised |-> "", ret |-> Str(r.iso)]
             ELSE IF Catches(r.exc) THEN [raised |-> "", ret |-> Null]
             ELSE [raised |-> r.exc, ret |-> Null]

-----------------------------------------------------------------------------
(* Datasets: what xr.open_dataset(file_path, decode_times=False) exposes.  *)
(*                                                                         *)
(* vars is the set of variables present ("X in ds"); a variable not in     *)
(* vars is never read.  Per-profile variables are sequences over N_PROF,   *)
(* measurement variables are grids over (N_PROF, N_LEVELS).  Positions are *)
(* 1-based here and 0-based in the frames, as pandas numbers them.         *)

MetaVarNames == {"CYCLE_NUMBER", "JULD", "LATITUDE", "LONGITUDE", "DATA_MODE"}
GridVarNames ==
    {"PRES", "PRES_ADJUSTED", "TEMP", "TEMP_ADJUSTED", "PSAL", "PSAL_ADJUSTED"}
AllVarNames == {"PLATFORM_NUMBER"} \cup MetaVarNames \cup GridVarNames

DataModes == {"R", "A", "D"}

(* The quantity a measurement variable holds.                              *)
Quantity(var) ==
    IF var \in {"PRES", "PRES_ADJUSTED"} THEN "P"
    ELSE IF var \in {"TEMP", "TEMP_ADJUSTED"} THEN "T" ELSE "S"

(* Every finite measurement is distinct per variable and per cell, so a    *)
(* value in the output identifies the array and the cell it was read from. *)
VarBase(var) ==
    CASE var = "PRES" -> 1000
      [] var = "PRES_ADJUSTED" -> 2000
      [] var = "TEMP" -> 3000
      [] var = "TEMP_ADJUSTED" -> 4000
      [] var = "PSAL" -> 5000
      [] var = "PSAL_ADJUSTED" -> 6000

(* What a cell holds for each quantity: pressure is a measurement, the     *)
(* fill value -9999, the threshold -9000 itself, or NaN; temperature and   *)
(* salinity are a measurement or NaN.  Kinds are numbered 0..15.           *)
NumKinds == 4 * 2 * 2
PressureKind(k) ==
    CASE (k \div 2) % 4 = 0 -> "fill" [] (k \div 2) % 4 = 1 -> "edge"
      [] (k \div 2) % 4 = 2 -> "ok" [] OTHER -> "nan"
TempMissing(k) == k % 2 = 1
SalMissing(k) == (k \div 8) % 2 = 1

(* The kind of the cell at profile i, level j of an nlev-level grid whose  *)
(* pattern starts at kind p: successive cells step through the kinds, so   *)
(* neighbours differ in temperature and, every second cell, in pressure.   *)
CellKind(p, nlev, i, j) == (p + (i - 1) * nlev + (j - 1)) % NumKinds

CellValue(var, k, i, j) ==
    LET fin == F(VarBase(var) + 10 * i + j)
    IN  CASE Quantity(var) = "P" ->
               (CASE PressureKind(k) = "ok" -> fin
                  [] PressureKind(k) = "fill" -> F(-9999)
                  [] PressureKind(k) = "edge" -> F(-9000)
                  [] OTHER -> NaN)
          [] Quantity(var) = "T" -> (IF TempMissing(k) THEN NaN ELSE fin)
          [] OTHER -> (IF SalMissing(k) THEN NaN ELSE fin)

(* PLATFORM_NUMBER of a profile: a blank-padded 8-character identifier.    *)
PlatformId(n) == "690" \o ToString(1000 + n) \o " "

MkDataset(absent, nprof, nlev, modes, multi, p) ==
    [vars |-> AllVarNames \ absent,
     nprof |-> nprof,
     nlev |-> nlev,
     PLATFORM_NUMBER |-> [i \in 1..nprof |-> PlatformId(IF multi THEN i ELSE 1)],
     CYCLE_NUMBER |-> [i \in 1..nprof |-> 40 + i],
     JULD |-> [i \in 1..nprof |->
                  IF i % 2 = 0 THEN FloatArg("nan", 0, 0) ELSE Days(25000 + i, i % 8)],
     LATITUDE |-> [i \in 1..nprof |-> F(10 + i)],
     LONGITUDE |-> [i \in 1..nprof |-> F(70 + i)],
     DATA_MODE |-> modes,
     grid |-> [var \in GridVarNames |->
                  [i \in 1..nprof |->
                      [j \in 1..nlev |-> CellValue(var, CellKind(p, nlev, i, j), i, j)]]]]

(* The variables a dataset may lack: none, any one, or both of the         *)
(* adjusted temperature and salinity.                                      *)
AbsentChoices ==
    {{}} \cup {{v} : v \in AllVarNames} \cup {{"TEMP_ADJUSTED", "PSAL_ADJUSTED"}}

-----------------------------------------------------------------------------
(* Data frames: the columns, and the rows in order, each row a function    *)
(* from column name to value.                                              *)

EmptyFrame == [cols |-> {}, rows |-> <<>>]

(* DataFrame.empty                                                         *)
Empty(df) == df.rows = <<>> \/ df.cols = {}

(* safe_stack (lines 58-66): the variable flattened to one row per         *)
(* (N_PROF, N_LEVELS) point, profile-major; an empty frame if it is absent.*)
safe_stack(d, var_name) ==
    IF var_name \notin d.vars THEN EmptyFrame
    ELSE [cols |-> {"N_PROF", "N_LEVELS", var_name},
          rows |-> [c \in 1..(d.nprof * d.nlev) |->
                      LET i == (c - 1) \div d.nlev
                          j == (c - 1) % d.nlev
                      IN  ("N_PROF" :> i) @@ ("N_LEVELS" :> j)
                            @@ (var_name :> d.grid[var_name][i + 1][j + 1])]]

(* left.merge(right, on=on, how="left"): each left row once per matching   *)
(* right row, in left order; NaN in the right's columns without a match.   *)
RECURSIVE MergeRows(_, _, _)
MergeRows(lrows, right, on) ==
    IF lrows = <<>> THEN <<>>
    ELSE LET l == Head(lrows)
             matches == SelectSeq(right.rows, LAMBDA r : \A k \in on : r[k] = l[k])
             extra == right.cols \ on
             joined == IF matches = <<>>
                       THEN << l @@ [c \in extra |-> NaN] >>
                       ELSE [m \in 1..Len(matches) |->
                               l @@ [c \in extra |-> matches[m][c]]]
         IN  joined \o MergeRows(Tail(lrows), right, on)

MergeLeft(left, right, on) ==
    [cols |-> left.cols \cup right.cols, rows |-> MergeRows(left.rows, right, on)]

(* left.merge(right, left_on=key, right_index=True, how="left"): the right *)
(* frame's index is 0..n-1, the position of each of its rows.              *)
MergeOnIndex(left, right, key) ==
    [cols |-> left.cols \cup right.cols,
     rows |-> [n \in 1..Len(left.rows) |->
                 LET l == left.rows[n]
                 IN  IF l[key] + 1 \in 1..Len(right.rows)
                     THEN l @@ right.rows[l[key] + 1]
                     ELSE l @@ [c \in right.cols |-> NaN]]]

-----------------------------------------------------------------------------
(* parse_argo_file (lines 27-110).                                         *)

(* Section 1 (lines 33-39): the identifiers of all profiles joined into    *)
(* one string, stripped at both ends; "UNKNOWN" without the variable.      *)
WmoFloatId(d) ==
    IF "PLATFORM_NUMBER" \in d.vars
    THEN Strip(Join(d.PLATFORM_NUMBER))
    ELSE "UNKNOWN"

(* Line 42.                                                                *)
required_meta_vars == <<"CYCLE_NUMBER", "JULD", "LATITUDE", "LONGITUDE", "DATA_MODE">>

(* Lines 43-45: the first required variable the dataset lacks, or "".      *)
FirstMissingMeta(d) ==
    LET missing == {n \in 1..Len(required_meta_vars) : required_meta_vars[n] \notin d.vars}
    IN  IF missing = {} THEN ""
        ELSE required_meta_vars[CHOOSE n \in missing : \A m \in missing : n <= m]

(* Lines 47-55: one row per profile, with the converted time.              *)
cycle_data_df(d) ==
    [cols |-> {"cycle_id", "juld_days", "latitude", "longitude", "data_mode",
               "date_time_utc"},
     rows |-> [i \in 1..d.nprof |->
                 [cycle_id |-> d.CYCLE_NUMBER[i],
                  juld_days |-> d.JULD[i],
                  latitude |-> d.LATITUDE[i],
                  longitude |-> d.LONGITUDE[i],
                  data_mode |-> d.DATA_MODE[i],
                  date_time_utc |-> julian_to_datetime(d.JULD[i]).ret]]]

(* An exception julian_to_datetime lets escape from the apply of line 55.  *)
ApplyRaised(d) ==
    LET bad == {i \in 1..d.nprof : julian_to_datetime(d.JULD[i]).raised # ""}
    IN  IF bad = {} THEN ""
        ELSE julian_to_datetime(d.JULD[CHOOSE i \in bad : \A k \in bad : i <= k]).raised

(* Lines 68-70: the three variables the function reads.                    *)
pressures_df(d) == safe_stack(d, "PRES")
temperatures_df(d) == safe_stack(d, "TEMP_ADJUSTED")
salinities_df(d) == safe_stack(d, "PSAL_ADJUSTED")

(* Lines 75-82: pressure, joined with what exists of temperature and       *)
(* salinity, then with the cycle metadata of the row's profile.            *)
MergedFrame(d) ==
    LET on == {"N_PROF", "N_LEVELS"}
        p0 == pressures_df(d)
        p1 == IF ~Empty(temperatures_df(d))
              THEN MergeLeft(p0, temperatures_df(d), on) ELSE p0
        p2 == IF ~Empty(salinities_df(d))
              THEN MergeLeft(p1, salinities_df(d), on) ELSE p1
    IN  MergeOnIndex(p2, cycle_data_df(d), "N_PROF")

(* The comparison of line 87 written with >= in place of >.                *)
KeepRowFromThreshold(row) == ~row["PRES"].nan /\ row["PRES"].v >= -9000

(* Line 87: the rows kept, profile_df["PRES"] > -9000.                     *)
KeepRow(row) == Gt(row["PRES"], -9000)

(* Lines 86-87.                                                            *)
FilterFill(df) ==
    IF "PRES" \in df.cols
    THEN [cols |-> df.cols, rows |-> SelectSeq(df.rows, KeepRow)]
    ELSE df

(* Lines 89-94: the rename map.                                            *)
RenameColumn(c) ==
    CASE c = "N_PROF" -> "prof_index"
      [] c = "PRES" -> "pressure_dbar"
      [] c = "TEMP_ADJUSTED" -> "temperature_c"
      [] c = "PSAL_ADJUSTED" -> "salinity_psu"
      [] OTHER -> c

Rename(df) ==
    LET new == {RenameColumn(c) : c \in df.cols}
        old(n) == CHOOSE c \in df.cols : RenameColumn(c) = n
    IN  [cols |-> new,
         rows |-> [k \in 1..Len(df.rows) |-> [n \in new |-> df.rows[k][old(n)]]]]

(* Line 96: one value for the whole column.                                *)
AssignWmo(df, wmo_float_id) ==
    [cols |-> df.cols \cup {"wmo_float_id"},
     rows |-> [k \in 1..Len(df.rows) |->
                 ("wmo_float_id" :> wmo_float_id) @@ df.rows[k]]]

(* The column list with the temperature column under its other name.       *)
final_columns_degC ==
    <<"wmo_float_id", "cycle_id", "date_time_utc", "latitude", "longitude",
      "pressure_dbar", "temperature_degC", "salinity_psu", "data_mode">>

(* Lines 98-101.                                                           *)
final_columns ==
    <<"wmo_float_id", "cycle_id", "date_time_utc", "latitude", "longitude",
      "pressure_dbar", "temperature_c", "salinity_psu", "data_mode">>

(* Line 104: the value a column the frame lacks is filled with, np.nan.    *)
MissingMarker == NaN

(* Lines 102-104.                                                          *)
EnsureColumns(df) ==
    LET want == {final_columns[n] : n \in 1..Len(final_columns)}
        lack == want \ df.cols
    IN  [cols |-> df.cols \cup want,
         rows |-> [k \in 1..Len(df.rows) |->
                     df.rows[k] @@ [c \in lack |-> MissingMarker]]]

(* The frame as it stands at line 106, before the columns are selected.    *)
profile_df(d) ==
    EnsureColumns(AssignWmo(Rename(FilterFill(MergedFrame(d))), WmoFloatId(d)))

(* Line 106: profile_df[final_columns].to_dict("records").                 *)
ToRecords(df) ==
    [k \in 1..Len(df.rows) |->
        [c \in {final_columns[n] : n \in 1..Len(final_columns)} |-> df.rows[k][c]]]

(* The exception raised inside the with block, as its message; "" if none. *)
InnerError(d) ==
    IF FirstMissingMeta(d) # ""
    THEN "Missing expected variable: " \o FirstMissingMeta(d)
    ELSE IF ApplyRaised(d) # "" THEN ApplyRaised(d)
    ELSE IF Empty(pressures_df(d)) THEN "No pressure data available in file."
    ELSE ""

(* The outcome of the call: the records, or the ValueError of line 110.    *)
(* cells is the (profile, level), 0-based, each record was made from; it   *)
(* is not part of what the function returns.                               *)
parse_argo_file(d) ==
    IF InnerError(d) # ""
    THEN [ok |-> FALSE, records |-> <<>>, cells |-> <<>>,
          error |-> "Failed to process NetCDF file: " \o InnerError(d)]
    ELSE LET df == profile_df(d)
         IN  [ok |-> TRUE,
              records |-> ToRecords(df),
              cells |-> [k \in 1..Len(df.rows) |->
                           <<df.rows[k]["prof_index"], df.rows[k]["N_LEVELS"]>>],
              error |-> ""]

-----------------------------------------------------------------------------
(* Spec: parse_argo_file on a bounded family of datasets.                  *)

NoResult == [ok |-> FALSE, records |-> <<>>, cells |-> <<>>, error |-> ""]

Init ==
    /\ \E absent \in AbsentChoices, nprof \in 1..MaxProf, nlev \in 1..MaxLev,
          multi \in BOOLEAN, p \in 0..(NumKinds - 1) :
          \E modes \in [1..nprof -> DataModes] :
              ds = MkDataset(absent, nprof, nlev, modes, multi, p)
    /\ result = NoResult
    /\ ppc = "open"
    /\ tin = NoneArg /\ tout = [raised |-> "", ret |-> Null] /\ tpc = "off"
    /\ fs = {} /\ pc = <<>> /\ upload = <<>> /\ temp_path = <<>>
    /\ created = <<>> /\ parsed_data = <<>> /\ response = <<>>

Parse ==
    /\ ppc = "open"
    /\ result' = parse_argo_file(ds)
    /\ ppc' = "done"
    /\ UNCHANGED <<ds, timeVars, endpointVars>>

Next == Parse

Spec == Init /\ [][Next]_vars

-----------------------------------------------------------------------------
(* SpecTime: julian_to_datetime on a bounded set of scalars.               *)

(* Day offsets around the epoch, month and leap-day boundaries, both ends  *)
(* of datetime's range and of timedelta's range.                           *)
DayAnchors ==
    {0, 58, 789, 18262, 25000, 1 - RefOrdinal, MaxOrdinal - RefOrdinal,
     999999999, -999999999}

DayOffsets == {a + k : a \in DayAnchors, k \in (-MaxDelta)..MaxDelta}

TimeInputs ==
    {Days(d, e) : d \in DayOffsets, e \in 0..7}
        \cup {FloatArg(c, 0, 0) : c \in {"nan", "inf", "-inf"}}
        \cup {NoneArg}
        \cup {StrArg(s) : s \in {"not-a-number", "", "0.5", "-1", "nan", "inf"}}

NoOutcome == [raised |-> "", ret |-> Null]

TimeInit ==
    /\ tin \in TimeInputs
    /\ tout = NoOutcome
    /\ tpc = "call"
    /\ ds = 0 /\ result = 0 /\ ppc = "off"
    /\ fs = {} /\ pc = <<>> /\ upload = <<>> /\ temp_path = <<>>
    /\ created = <<>> /\ parsed_data = <<>> /\ response = <<>>

Convert ==
    /\ tpc = "call"
    /\ tout' = julian_to_datetime(tin)
    /\ tpc' = "done"
    /\ UNCHANGED <<tin, parseVars, endpointVars>>

TimeNext == Convert

SpecTime == TimeInit /\ [][TimeNext]_vars

-----------------------------------------------------------------------------
(* parse_argo_endpoint (lines 113-149), under Flask's threaded server:     *)
(* several requests run the handler at once and share the temp directory.  *)

Requests == 1..MaxReq

(* The names tempfile.NamedTemporaryFile(suffix=".nc") can give.           *)
TmpNames == {"/tmp/tmp" \o ToString(n) \o ".nc" : n \in 1..MaxNames}

(* What an uploaded file holds: a NetCDF dataset, or bytes that are not    *)
(* NetCDF, on which xr.open_dataset raises.                                *)
GoodDataset == MkDataset({}, 1, 2, <<"D">>, FALSE, 4)
NoPresDataset == MkDataset({"PRES"}, 1, 2, <<"D">>, FALSE, 4)
Contents ==
    {[netcdf |-> TRUE, d |-> GoodDataset],
     [netcdf |-> TRUE, d |-> NoPresDataset],
     [netcdf |-> FALSE, d |-> GoodDataset]}

(* A request: whether it has a "file" part, the part's filename, its bytes.*)
Uploads ==
    {[has_file |-> FALSE, filename |-> "", content |-> c] :
        c \in {[netcdf |-> FALSE, d |-> GoodDataset]}}
    \cup {[has_file |-> TRUE, filename |-> n, content |-> c] :
            n \in {"", "notes.txt"}, c \in {[netcdf |-> FALSE, d |-> GoodDataset]}}
    \cup {[has_file |-> TRUE, filename |-> "profile.nc", content |-> c] :
            c \in Contents}

(* str.endswith                                                            *)
EndsWith(s, suffix) ==
    Len(s) >= Len(suffix) /\ SubSeq(s, Len(s) - Len(suffix) + 1, Len(s)) = suffix

(* Lines 115-123 and 148-149: the error of a request that fails the file   *)
(* checks, "" for one that passes them.                                    *)
FileCheckError(u) ==
    IF ~u.has_file THEN "No file part in the request"
    ELSE IF u.filename = "" THEN "No selected file"
    ELSE IF ~EndsWith(u.filename, ".nc") THEN "Invalid file type. Must be a .nc file"
    ELSE ""

NoResponse == [code |-> 0, error |-> "", total_rows |-> 0]
ErrorResponse(code, msg) == [code |-> code, error |-> msg, total_rows |-> 0]

(* os.path.exists                                                          *)
Exists(files, path) == \E f \in files : f.name = path

(* os.remove                                                               *)
Remove(files, path) == {f \in files : f.name # path}

(* The test of line 145 with the existence check negated.                  *)
ShouldRemoveIfAbsent(path, files) == path # "" /\ ~Exists(files, path)

(* Line 145: whether the finally block removes the file.                   *)
ShouldRemove(path, files) == path # "" /\ Exists(files, path)

(* Lines 144-147, the finally block.                                       *)
Finally(files, path) == IF ShouldRemove(path, files) THEN Remove(files, path) ELSE files

(* parse_argo_file on the stored bytes: open_dataset raises on bytes that  *)
(* are not NetCDF, and line 110 wraps that as every other exception.       *)
ParseStored(content) ==
    IF content.netcdf THEN parse_argo_file(content.d)
    ELSE [ok |-> FALSE, records |-> <<>>, cells |-> <<>>,
          error |-> "Failed to process NetCDF file: did not find a match in any of "
                      \o "xarray's currently installed IO backends"]

EndpointInit ==
    /\ fs = {}
    /\ pc = [r \in Requests |-> "start"]
    /\ upload \in [Requests -> Uploads]
    /\ temp_path = [r \in Requests |-> ""]
    /\ created = [r \in Requests |-> ""]
    /\ parsed_data = [r \in Requests |-> NoResult]
    /\ response = [r \in Requests |-> NoResponse]
    /\ ds = 0 /\ result = 0 /\ ppc = "off"
    /\ tin = NoneArg /\ tout = [raised |-> "", ret |-> Null] /\ tpc = "off"

(* Lines 115-126: the file checks; a request that passes them gets a new,  *)
(* empty temporary file under a name no existing file has.                 *)
Receive(r) ==
    /\ pc[r] = "start"
    /\ IF FileCheckError(upload[r]) # ""
       THEN /\ response' = [response EXCEPT ![r] = ErrorResponse(400, FileCheckError(upload[r]))]
            /\ pc' = [pc EXCEPT ![r] = "done"]
            /\ UNCHANGED <<fs, created>>
       ELSE /\ \E name \in TmpNames :
                 /\ ~Exists(fs, name)
                 /\ fs' = fs \cup {[name |-> name, owner |-> r, written |-> FALSE,
                                    content |-> upload[r].content]}
                 /\ created' = [created EXCEPT ![r] = name]
            /\ pc' = [pc EXCEPT ![r] = "save"]
            /\ UNCHANGED response
    /\ UNCHANGED <<upload, temp_path, parsed_data, parseVars, timeVars>>

(* Lines 127-128: file.save writes the upload, then temp_path is set.      *)
Save(r) ==
    /\ pc[r] = "save"
    /\ fs' = {IF f.name = created[r] THEN [f EXCEPT !.written = TRUE] ELSE f : f \in fs}
    /\ temp_path' = [temp_path EXCEPT ![r] = created[r]]
    /\ pc' = [pc EXCEPT ![r] = "parse"]
    /\ UNCHANGED <<upload, created, parsed_data, response, parseVars, timeVars>>

(* Line 127 when file.save raises (an OSError such as a full disk): line   *)
(* 128 is skipped, so the handler of line 142 answers and the finally      *)
(* block runs with temp_path still None.                                   *)
SaveFails(r) ==
    /\ pc[r] = "save"
    /\ response' = [response EXCEPT ![r] =
                      ErrorResponse(500, "Unexpected server error: "
                                           \o "[Errno 28] No space left on device")]
    /\ fs' = Finally(fs, temp_path[r])
    /\ pc' = [pc EXCEPT ![r] = "done"]
    /\ UNCHANGED <<upload, temp_path, created, parsed_data, parseVars, timeVars>>

(* Line 131, first half: parse_argo_file opens the file at temp_path.      *)
OpenDataset(r) ==
    /\ pc[r] = "parse"
    /\ IF Exists(fs, temp_path[r])
       THEN /\ pc' = [pc EXCEPT ![r] = "parsing"]
            /\ UNCHANGED parsed_data
       ELSE /\ parsed_data' = [parsed_data EXCEPT ![r] =
                 [ok |-> FALSE, records |-> <<>>, cells |-> <<>>,
                  error |-> "Failed to process NetCDF file: [Errno 2] No such file "
                              \o "or directory: " \o temp_path[r]]]
            /\ pc' = [pc EXCEPT ![r] = "respond"]
    /\ UNCHANGED <<fs, upload, temp_path, created, response, parseVars, timeVars>>

(* Line 131, second half: parse_argo_file reads the open file and returns  *)
(* or raises ValueError.                                                   *)
ReadDataset(r) ==
    /\ pc[r] = "parsing"
    /\ \E f \in fs :
          /\ f.name = temp_path[r]
          /\ parsed_data' = [parsed_data EXCEPT ![r] = ParseStored(f.content)]
    /\ pc' = [pc EXCEPT ![r] = "respond"]
    /\ UNCHANGED <<fs, upload, temp_path, created, response, parseVars, timeVars>>

(* Lines 133-143: the 200 response; the 500 of a ValueError; the 500 of    *)
(* any other exception, which jsonify raises on a value it cannot encode.  *)
Respond(r) ==
    /\ pc[r] = "respond"
    /\ IF parsed_data[r].ok
       THEN \E encodes \in BOOLEAN :
              response' = [response EXCEPT ![r] =
                  IF encodes
                  THEN [code |-> 200, error |-> "",
                        total_rows |-> Len(parsed_data[r].records)]
                  ELSE ErrorResponse(500, "Unexpected server error: "
                                            \o "Object is not JSON serializable")]
       ELSE response' = [response EXCEPT ![r] = ErrorResponse(500, parsed_data[r].error)]
    /\ pc' = [pc EXCEPT ![r] = "finally"]
    /\ UNCHANGED <<fs, upload, temp_path, created, parsed_data, parseVars, timeVars>>

(* Lines 144-147: the finally block, after which the response is returned. *)
Cleanup(r) ==
    /\ pc[r] = "finally"
    /\ fs' = Finally(fs, temp_path[r])
    /\ pc' = [pc EXCEPT ![r] = "done"]
    /\ UNCHANGED <<upload, temp_path, created, parsed_data, response, parseVars, timeVars>>

EndpointNext ==
    \E r \in Requests :
        \/ Receive(r)
        \/ Save(r)
        \/ SaveFails(r)
        \/ OpenDataset(r)
        \/ ReadDataset(r)
        \/ Respond(r)
        \/ Cleanup(r)

SpecEndpoint == EndpointInit /\ [][EndpointNext]_vars

-----------------------------------------------------------------------------
(* The claims.  Each is stated over the outcome of a finished call.        *)

Succeeded == ppc = "done" /\ result.ok
Records == result.records
RecordIdx == 1..Len(result.records)

(* The profile and the level (1-based) record k was made from.             *)
ProfOf(k) == result.cells[k][1] + 1
LevOf(k) == result.cells[k][2] + 1

(* The value of a measurement array at the cell record k was made from.    *)
ArrayAt(var, k) == ds.grid[var][ProfOf(k)][LevOf(k)]

RawVars == {"PRES", "TEMP", "PSAL"}
AdjustedVars == {"PRES_ADJUSTED", "TEMP_ADJUSTED", "PSAL_ADJUSTED"}

(* The claims' missing-value rules.                                        *)
MissingPressure(x) == x.nan \/ x.v <= -9000
MissingValue(x) == x.nan

(* C1: for every profile whose data_mode is R, in a dataset holding both   *)
(* the raw and the adjusted arrays, the temperature and salinity of each   *)
(* record of that profile are the values of TEMP and PSAL at the record's  *)
(* cell, not those of TEMP_ADJUSTED and PSAL_ADJUSTED.                     *)
C1_RealTimeEmitsRaw ==
    (Succeeded /\ (RawVars \cup AdjustedVars) \subseteq ds.vars) =>
        \A k \in RecordIdx :
            ds.DATA_MODE[ProfOf(k)] = "R" =>
                /\ Records[k].temperature_c = ArrayAt("TEMP", k)
                /\ Records[k].salinity_psu = ArrayAt("PSAL", k)

(* C2: for every profile whose data_mode is A or D, in a dataset holding   *)
(* all three adjusted arrays, the pressure, temperature and salinity of    *)
(* each record of that profile are the values of PRES_ADJUSTED,            *)
(* TEMP_ADJUSTED and PSAL_ADJUSTED at the record's cell.                   *)
C2_AdjustedModeEmitsAdjusted ==
    (Succeeded /\ AdjustedVars \subseteq ds.vars) =>
        \A k \in RecordIdx :
            ds.DATA_MODE[ProfOf(k)] \in {"A", "D"} =>
                /\ Records[k].pressure_dbar = ArrayAt("PRES_ADJUSTED", k)
                /\ Records[k].temperature_c = ArrayAt("TEMP_ADJUSTED", k)
                /\ Records[k].salinity_psu = ArrayAt("PSAL_ADJUSTED", k)

(* C3: for a dataset with PSAL and without PSAL_ADJUSTED whose profiles    *)
(* all have data_mode D, the call raises no error and the salinity of      *)
(* every record is the value of PSAL at the record's cell.                 *)
C3_SalinityFallsBackToRaw ==
    (/\ ppc = "done"
     /\ "PSAL" \in ds.vars
     /\ "PSAL_ADJUSTED" \notin ds.vars
     /\ (AllVarNames \ {"PSAL_ADJUSTED"}) \subseteq ds.vars
     /\ \A i \in 1..ds.nprof : ds.DATA_MODE[i] = "D") =>
        /\ result.ok
        /\ \A k \in RecordIdx : Records[k].salinity_psu = ArrayAt("PSAL", k)

(* The array the Field Selector of the specification reads a quantity of   *)
(* profile i from: the adjusted one for data_mode A or D when all three    *)
(* adjusted arrays exist, the raw one otherwise.                           *)
SelectedVar(raw, i) ==
    IF ds.DATA_MODE[i] \in {"A", "D"} /\ AdjustedVars \subseteq ds.vars
    THEN raw \o "_ADJUSTED" ELSE raw

AllMissingAt(i, j) ==
    /\ MissingPressure(ds.grid[SelectedVar("PRES", i)][i][j])
    /\ MissingValue(ds.grid[SelectedVar("TEMP", i)][i][j])
    /\ MissingValue(ds.grid[SelectedVar("PSAL", i)][i][j])

RecordsOfCell(i, j) == {k \in RecordIdx : ProfOf(k) = i /\ LevOf(k) = j}

(* C4: every cell of the grid gives exactly one record, unless pressure,   *)
(* temperature and salinity are all missing there (pressure NaN or         *)
(* <= -9000, temperature and salinity NaN), and then it gives none; so a   *)
(* cell with a fill-value pressure and a finite temperature or salinity    *)
(* still gives a record.                                                   *)
C4_OneRecordPerCellUnlessAllMissing ==
    (Succeeded /\ GridVarNames \subseteq ds.vars) =>
        \A i \in 1..ds.nprof, j \in 1..ds.nlev :
            Cardinality(RecordsOfCell(i, j)) = IF AllMissingAt(i, j) THEN 0 ELSE 1

(* C5: in every record sequence the call returns, each pressure_dbar is    *)
(* missing or strictly greater than -9000.                                 *)
C5_NoFillPressureEmitted ==
    Succeeded =>
        \A k \in RecordIdx :
            Records[k].pressure_dbar.nan \/ Records[k].pressure_dbar.v > -9000

(* C5 witness: a finished call on a grid that holds a fill-value pressure  *)
(* and a pressure of exactly -9000, and that returned a record.            *)
C5_Witness ==
    /\ Succeeded
    /\ Records # <<>>
    /\ \E i \in 1..ds.nprof, j \in 1..ds.nlev : ds.grid["PRES"][i][j] = F(-9999)
    /\ \E i \in 1..ds.nprof, j \in 1..ds.nlev : ds.grid["PRES"][i][j] = F(-9000)

(* A string occurs in another.                                             *)
Contains(s, w) ==
    \E n \in 1..(Len(s) - Len(w) + 1) : SubSeq(s, n, n + Len(w) - 1) = w

RequiredVars == {"CYCLE_NUMBER", "JULD", "LATITUDE", "LONGITUDE", "DATA_MODE", "PRES"}

(* C6: if a required variable (CYCLE_NUMBER, JULD, LATITUDE, LONGITUDE,    *)
(* DATA_MODE or PRES) is absent, the call returns no records and raises    *)
(* an error whose message names the missing variable; a dataset without    *)
(* PRES gives a message containing PRES.                                   *)
C6_ErrorNamesMissingVariable ==
    ppc = "done" =>
        \A v \in RequiredVars \ ds.vars :
            /\ ~result.ok
            /\ Records = <<>>
            /\ Contains(result.error, v)

(* C7: when PLATFORM_NUMBER holds one identifier per profile, the          *)
(* wmo_float_id of every record is the trimmed identifier of the record's  *)
(* own profile, never several profiles' identifiers joined.                *)
C7_WmoIdOfOwnProfile ==
    (Succeeded /\ "PLATFORM_NUMBER" \in ds.vars) =>
        \A k \in RecordIdx :
            Records[k].wmo_float_id = Strip(ds.PLATFORM_NUMBER[ProfOf(k)])

(* The key set the specification fixes for a record.                       *)
RecordKeys ==
    {"wmo_float_id", "cycle_id", "date_time_utc", "latitude", "longitude",
     "pressure_dbar", "temperature_c", "salinity_psu", "data_mode"}

(* C9: every record of a successful call has exactly the nine keys of the  *)
(* record shape; when TEMP_ADJUSTED or PSAL_ADJUSTED is absent from the    *)
(* dataset its column is still there, holding the missing marker NaN.      *)
C9_FixedKeySet ==
    Succeeded =>
        \A k \in RecordIdx :
            /\ DOMAIN Records[k] = RecordKeys
            /\ "TEMP_ADJUSTED" \notin ds.vars => Records[k].temperature_c = NaN
            /\ "PSAL_ADJUSTED" \notin ds.vars => Records[k].salinity_psu = NaN

(* C9 witness: a successful call that returned records from a dataset      *)
(* without TEMP_ADJUSTED.                                                  *)
C9_Witness ==
    /\ Succeeded
    /\ Records # <<>>
    /\ "TEMP_ADJUSTED" \notin ds.vars
    /\ "TEMP" \in ds.vars

-----------------------------------------------------------------------------
(* C8, julian_to_datetime.  The expected outcome is stated from the        *)
(* calendar, independently of the conversion: the returned string is read  *)
(* back and turned into a day offset again.                                *)

(* The day offset a scalar denotes as <<whole days, eighths>>; only asked  *)
(* of a finite float or a str that float() reads as a finite number.       *)
DenotedOffset(x) ==
    IF x.t = "float" THEN <<x.d, x.e>>
    ELSE IF x.str = "0.5" THEN <<0, 4>>
    ELSE <<-1, 0>>

(* The inputs the claim expects null for: missing or NaN, a str float()    *)
(* cannot read, and offsets outside 0001-01-01 .. 9999-12-31.              *)
ExpectNull(x) ==
    \/ x.t = "none"
    \/ x.t = "float" /\ x.cls # "fin"
    \/ x.t = "str" /\ x.str \notin {"0.5", "-1"}
    \/ x.t = "float" /\ x.cls = "fin" /\ (x.d < -711857 \/ x.d > 2940201)

DigitOf(c) == CHOOSE n \in 0..9 : ToString(n) = c

IsDigits(s) == \A n \in 1..Len(s) : \E m \in 0..9 : ToString(m) = SubSeq(s, n, n)

RECURSIVE NumberOf(_)
NumberOf(s) ==
    IF s = "" THEN 0
    ELSE 10 * NumberOf(SubSeq(s, 1, Len(s) - 1)) + DigitOf(SubSeq(s, Len(s), Len(s)))

(* YYYY-MM-DDTHH:MM:SS, with no fraction and no timezone suffix.           *)
WellFormedIso(s) ==
    /\ Len(s) = 19
    /\ SubSeq(s, 5, 5) = "-" /\ SubSeq(s, 8, 8) = "-" /\ SubSeq(s, 11, 11) = "T"
    /\ SubSeq(s, 14, 14) = ":" /\ SubSeq(s, 17, 17) = ":"
    /\ IsDigits(SubSeq(s, 1, 4)) /\ IsDigits(SubSeq(s, 6, 7))
    /\ IsDigits(SubSeq(s, 9, 10)) /\ IsDigits(SubSeq(s, 12, 13))
    /\ IsDigits(SubSeq(s, 15, 16)) /\ IsDigits(SubSeq(s, 18, 19))
    /\ NumberOf(SubSeq(s, 6, 7)) \in 1..12
    /\ NumberOf(SubSeq(s, 9, 10)) \in 1..31
    /\ NumberOf(SubSeq(s, 12, 13)) \in 0..23
    /\ NumberOf(SubSeq(s, 15, 16)) \in 0..59
    /\ NumberOf(SubSeq(s, 18, 19)) \in 0..59

LeapYear(y) == y % 4 = 0 /\ (y % 100 # 0 \/ y % 400 = 0)

(* Days from 1950-01-01 to the civil date y-m-d.                           *)
CivilDayOffset(y, m, d) ==
    LET before == <<0, 31, 59, 90, 120, 151, 181, 212, 243, 273, 304, 334>>
        py == y - 1
        epoch == 365 * 1949 + 487 - 19 + 4 + 1
    IN  365 * py + (py \div 4) - (py \div 100) + (py \div 400)
          + before[m] + (IF m > 2 /\ LeapYear(y) THEN 1 ELSE 0) + d - epoch

(* The offset <<whole days, eighths>> an ISO string stands for; the eighth *)
(* is -1 when the time of day is not a whole number of eighths.            *)
IsoOffset(s) ==
    LET secs == NumberOf(SubSeq(s, 12, 13)) * 3600 + NumberOf(SubSeq(s, 15, 16)) * 60
                  + NumberOf(SubSeq(s, 18, 19))
    IN  <<CivilDayOffset(NumberOf(SubSeq(s, 1, 4)), NumberOf(SubSeq(s, 6, 7)),
                         NumberOf(SubSeq(s, 9, 10))),
          IF secs % 10800 = 0 THEN secs \div 10800 ELSE -1>>

(* C8: julian_to_datetime never raises on a scalar; it returns null for a  *)
(* missing or NaN input, for one float() cannot coerce and for an offset   *)
(* outside the representable dates; for every other offset d it returns    *)
(* the ISO-8601 string, without timezone suffix, of 1950-01-01T00:00:00    *)
(* plus d days: d = 0 gives "1950-01-01T00:00:00" and d = 0.5 gives        *)
(* "1950-01-01T12:00:00".                                                  *)
C8_TimeConversion ==
    tpc = "done" =>
        /\ tout.raised = ""
        /\ ExpectNull(tin) => tout.ret = Null
        /\ ~ExpectNull(tin) =>
              /\ ~tout.ret.isnull
              /\ WellFormedIso(tout.ret.s)
              /\ IsoOffset(tout.ret.s) = DenotedOffset(tin)
              /\ DenotedOffset(tin) = <<0, 0>> => tout.ret.s = "1950-01-01T00:00:00"
              /\ DenotedOffset(tin) = <<0, 4>> => tout.ret.s = "1950-01-01T12:00:00"

(* C8 witness: the call on d = 0.5 has returned noon of the epoch day.     *)
C8_Witness ==
    /\ tpc = "done"
    /\ tin = Days(0, 4)
    /\ tout = [raised |-> "", ret |-> Str("1950-01-01T12:00:00")]

-----------------------------------------------------------------------------
(* C10, parse_argo_endpoint.                                               *)

(* The temporary file request r created is still in the directory.         *)
OwnFileExists(r) == \E f \in fs : f.name = created[r] /\ f.owner = r

(* Request r reached parse_argo_file: file.save returned and temp_path     *)
(* names the file the request created.                                     *)
ReachedParse(r) == temp_path[r] # ""

====
